---- MODULE Spec2Model ----
(***************************************************************************)
(* The exception registry of faas-support (search-exceptions service):     *)
(* three HTTP handlers over one Redis connection.  A handler is an async   *)
(* function; every `await redisClient.<cmd>` is a point where the handlers *)
(* of other requests run.  Node runs the code between two awaits without   *)
(* interruption and the single connection sends the commands in the order  *)
(* they are issued, so one action is: the code from one await to the next  *)
(* together with the Redis command it issues.                              *)
(*                                                                         *)
(* Beside it: the earlier revision of the registry that keeps the          *)
(* exceptions in a map in memory, and the upload service, which calls the  *)
(* registry for the exception file of an archive and the notify service    *)
(* when the registry answers that the exception is a duplicate.  Further   *)
(* on: the two revisions of the registry side by side, the handler of      *)
(* POST /upload with calls that fail and with its directory on disk, and   *)
(* the notify service with its directory of notification files.            *)
(***************************************************************************)
EXTENDS Integers, Sequences, FiniteSets, TLC

\* Bounds of the model.
MaxInFlight == 2    \* requests the server handles at the same time
MaxRecords == 3     \* POST /exceptions requests over a run
MaxReads == 1       \* GET requests (search, list) over a run
MaxTime == 1        \* last value of the millisecond clock
MaxUploads == 3     \* archives the upload service processes over a run

VARIABLES
  redisStrings,   \* `exception:<hash>:count` -> decimal string
  redisHashes,    \* `exception:<hash>`       -> fields of the record
  redisZset,      \* `exceptions:all`: the members with their scores
  now,            \* the clock behind Date.now() and new Date()
  calls,          \* the requests in flight, one per slot
  posts,          \* POST /exceptions requests received so far
  gets,           \* GET /exceptions/search and GET /exceptions requests so far
  reply,          \* the response the last step sent (res.json), if it sent one
  sent,           \* per hash, the POST /exceptions requests answered with
                  \* success, in the order of the responses: message and response
  exceptionDatabase,  \* the map of the in-memory revision: normalized
                      \* message -> its occurrences
  uploads,        \* upload service: the archives being processed, one per slot
  archives,       \* archives the upload service has begun to process so far
  notifications,  \* the POST /notify requests the upload service has sent
  notificationsDir,   \* notify service: the files of its directory, by name
  uploadsDir,     \* upload service: the files and directories of its directory
  res,            \* upload service: per slot, the response to its POST /upload
  failed          \* per slot, whether a call made for its POST /upload failed

vars == <<redisStrings, redisHashes, redisZset, now, calls, posts, gets, reply, sent,
          exceptionDatabase, uploads, archives, notifications, notificationsDir,
          uploadsDir, res, failed>>

\* What the handler of POST /upload keeps around processExtractedFiles.
handler == <<uploadsDir, res, failed>>

\* What the registry and processExtractedFiles have no access to.
beyond == <<notificationsDir, handler>>

\* What a request to the Redis-backed registry leaves alone.
others == <<exceptionDatabase, uploads, archives, notifications, beyond>>

Slots == 1..MaxInFlight

-----------------------------------------------------------------------------
(* Inputs.  A text is a sequence of one-character strings.                 *)

Messages == { <<"X">>, <<" ", "x", " ">>, <<"y">>, <<>> }
ZipFiles == { "a.zip", "b.zip", "" }
Queries == { <<"x">>, <<"Y", " ">>, <<>> }

-----------------------------------------------------------------------------
(* Pure functions.                                                         *)

\* String.prototype.toLowerCase on one character.
LowerChar(c) ==
  CASE c = "X" -> "x"
    [] c = "Y" -> "y"
    [] c = "E" -> "e"
    [] OTHER -> c

toLowerCase(s) == [i \in 1..Len(s) |-> LowerChar(s[i])]

IsWhitespace(c) == c = " "

RECURSIVE trimStart(_)
trimStart(s) ==
  IF s # <<>> /\ IsWhitespace(Head(s)) THEN trimStart(Tail(s)) ELSE s

RECURSIVE trimEnd(_)
trimEnd(s) ==
  IF s # <<>> /\ IsWhitespace(s[Len(s)])
    THEN trimEnd(SubSeq(s, 1, Len(s) - 1))
    ELSE s

\* String.prototype.trim
trim(s) == trimEnd(trimStart(s))

\* A normalisation that forgets to lower-case.
normalizeMessageNoLower(message) == trim(message)

normalizeMessage(message) == trim(toLowerCase(message))

\* crypto.createHash('sha256').update(text).digest('hex'), cut to the leading
\* byte of the real digest (the hex strings order as their leading bytes do).
sha256hex(text) ==
  CASE text = <<"x">> -> 45
    [] text = <<"y">> -> 161
    [] text = <<"X">> -> 75
    [] text = <<"Y">> -> 24
    [] text = <<" ", "x", " ">> -> 252
    [] text = <<"y", " ">> -> 196
    [] text = <<"Y", " ">> -> 133
    [] text = <<" ", "X", " ">> -> 89
    [] text = <<>> -> 227
    [] text = <<"_", "_", "p", "r", "o", "t", "o", "_", "_">> -> 48

hashMessage(message) == sha256hex(normalizeMessage(message))

\* Number.prototype.toString on a non-negative integer: its decimal digits.
Digit(d) ==
  CASE d = 0 -> "0" [] d = 1 -> "1" [] d = 2 -> "2" [] d = 3 -> "3"
    [] d = 4 -> "4" [] d = 5 -> "5" [] d = 6 -> "6" [] d = 7 -> "7"
    [] d = 8 -> "8" [] d = 9 -> "9"

RECURSIVE toString(_)
toString(n) ==
  IF n < 10 THEN <<Digit(n)>> ELSE Append(toString(n \div 10), Digit(n % 10))

DigitValue(c) ==
  CASE c = "0" -> 0 [] c = "1" -> 1 [] c = "2" -> 2 [] c = "3" -> 3
    [] c = "4" -> 4 [] c = "5" -> 5 [] c = "6" -> 6 [] c = "7" -> 7
    [] c = "8" -> 8 [] c = "9" -> 9

\* parseInt on a string of decimal digits.
RECURSIVE parseInt(_)
parseInt(s) ==
  IF Len(s) = 1
    THEN DigitValue(s[1])
    ELSE 10 * parseInt(SubSeq(s, 1, Len(s) - 1)) + DigitValue(s[Len(s)])

\* A check that takes every string for filled in.
NeverFalsy(s) == Len(s) < 0

\* `!message`, `!zipFile`, `!query`: the empty string is falsy.
Falsy(s) == Len(s) = 0

-----------------------------------------------------------------------------
(* Redis commands.  A command runs atomically in the server.               *)

\* A count that takes a key that does not exist for one occurrence.
CountOfDefaultOne(h) ==
  IF h \in DOMAIN redisStrings /\ ~Falsy(redisStrings[h])
    THEN parseInt(redisStrings[h])
    ELSE 1

\* GET key followed by `countStr ? parseInt(countStr) : 0`
CountOf(h) ==
  IF h \in DOMAIN redisStrings /\ ~Falsy(redisStrings[h])
    THEN parseInt(redisStrings[h])
    ELSE 0

\* A SET NX: a key that exists keeps its value.
SetIfAbsent(strings, h, value) ==
  IF h \in DOMAIN strings
    THEN strings
    ELSE [k \in DOMAIN strings \cup {h} |-> IF k = h THEN value ELSE strings[k]]

\* A SET that is not carried out.
SetDropped(strings, h, value) == strings

\* SET key value
Set(strings, h, value) ==
  [k \in DOMAIN strings \cup {h} |-> IF k = h THEN value ELSE strings[k]]

\* The empty object hGetAll gives for a key that does not exist.
NoFields == [f \in {} |-> ""]

\* HGETALL key
hGetAll(h) == IF h \in DOMAIN redisHashes THEN redisHashes[h] ELSE NoFields

\* A store that keeps the first occurrence: a record that exists is not
\* overwritten.
hSetKeepFirst(hashes, h, fields) ==
  IF h \in DOMAIN hashes
    THEN hashes
    ELSE [k \in DOMAIN hashes \cup {h} |-> IF k = h THEN fields ELSE hashes[k]]

\* A write that replaces the whole keyspace of records by the one record.
hSetAlone(hashes, h, fields) == [k \in {h} |-> fields]

\* HSET key field value [field value ...] with the four fields of the record
hSet(hashes, h, fields) ==
  [k \in DOMAIN hashes \cup {h} |-> IF k = h THEN fields ELSE hashes[k]]

\* An index that holds the last member only.
zAddOnly(zset, score, value) == {[score |-> score, value |-> value]}

\* An index that appends: a member already in it is entered again.
zAddAgain(zset, score, value) == zset \cup {[score |-> score, value |-> value]}

\* ZADD key score member: a member already in the set gets the new score.
zAdd(zset, score, value) ==
  {e \in zset : e.value # value} \cup {[score |-> score, value |-> value]}

\* The order of a sorted set: by score, equal scores by member.
ZLess(a, b) == a.score < b.score \/ (a.score = b.score /\ a.value < b.value)

RECURSIVE zRange(_)
zRange(zset) ==
  IF zset = {}
    THEN <<>>
    ELSE LET first == CHOOSE a \in zset : \A b \in zset \ {a} : ZLess(a, b)
         IN  <<first.value>> \o zRange(zset \ {first})

\* ZRANGEBYSCORE key -inf +inf
zRangeByScore(zset) == zRange(zset)

-----------------------------------------------------------------------------
(* Requests.                                                               *)

NoResponse == [status |-> 0]

IdleCall ==
  [ op |-> "none", pc |-> "idle", message |-> <<>>, zipFile |-> "",
    query |-> <<>>, count |-> 0, exceptionData |-> NoFields,
    allExceptions |-> <<>>, exceptions |-> <<>>,
    sentBefore |-> 0, quietBefore |-> TRUE ]

Free(s) == calls[s].pc = "idle"

\* The step sent no response.
NoReply == [op |-> "none", body |-> NoResponse, sentBefore |-> 0, quietBefore |-> TRUE]

\* No archive is being processed in the slot.
IdleUpload == [pc |-> "idle", fileName |-> "", files |-> <<>>]

Init ==
  /\ exceptionDatabase = <<>>
  /\ uploads = [u \in Slots |-> IdleUpload]
  /\ archives = 0
  /\ notifications = <<>>
  /\ notificationsDir = <<>>
  /\ uploadsDir = <<>>
  /\ res = [u \in Slots |-> NoResponse]
  /\ failed = [u \in Slots |-> FALSE]
  /\ redisStrings = <<>>
  /\ redisHashes = <<>>
  /\ redisZset = {}
  /\ now = 0
  /\ calls = [s \in Slots |-> IdleCall]
  /\ posts = 0
  /\ gets = 0
  /\ reply = NoReply
  /\ sent = <<>>

\* The clock moves on.
Tick ==
  /\ now < MaxTime
  /\ now' = now + 1
  /\ reply' = NoReply
  /\ UNCHANGED <<redisStrings, redisHashes, redisZset, calls, posts, gets, sent, others>>

\* No POST /exceptions is between its first and its last Redis command.
NoRecordInFlight == \A s \in Slots : calls[s].op # "record"

\* The success responses POST /exceptions has sent for hash h.
SentFor(h) == IF h \in DOMAIN sent THEN sent[h] ELSE <<>>

RECURSIVE MaxCount(_)
MaxCount(responses) ==
  IF responses = <<>>
    THEN 0
    ELSE LET rest == MaxCount(Tail(responses))
         IN  IF Head(responses).body.duplicateCount > rest
               THEN Head(responses).body.duplicateCount
               ELSE rest

RECURSIVE SumLen(_, _)
SumLen(f, keys) ==
  IF keys = {}
    THEN 0
    ELSE LET k == CHOOSE x \in keys : TRUE
         IN  Len(f[k]) + SumLen(f, keys \ {k})

\* All the success responses POST /exceptions has sent.
TotalSent == SumLen(sent, DOMAIN sent)

\* A request arrives in slot s.  It notes what had been answered before it
\* (sentBefore) and whether a POST /exceptions was running (quietBefore).
Arrive(s, op, before) ==
  [IdleCall EXCEPT !.op = op, !.sentBefore = before, !.quietBefore = NoRecordInFlight]

\* res.json: the response of a request.
Respond(call, body) ==
  [op |-> call.op, body |-> body, sentBefore |-> call.sentBefore,
   quietBefore |-> call.quietBefore]

BadRequest(error) == [status |-> 400, error |-> error]

-----------------------------------------------------------------------------
(* POST /exceptions                                                        *)

\* Lines 55-65: validation, the hash, GET of the count.
RecordStart(s, message, zipFile) ==
  /\ Free(s)
  /\ posts < MaxRecords
  /\ posts' = posts + 1
  /\ IF Falsy(message) \/ Falsy(zipFile)
       THEN /\ reply' = Respond(Arrive(s, "record", 0),
                           BadRequest("Missing required fields: message, zipFile"))
            /\ UNCHANGED calls
       ELSE /\ calls' = [calls EXCEPT ![s] =
                  [Arrive(s, "record", 0) EXCEPT
                     !.pc = "hSet", !.message = message, !.zipFile = zipFile,
                     !.count = CountOf(hashMessage(message)) + 1]]
            /\ reply' = NoReply
  /\ UNCHANGED <<redisStrings, redisHashes, redisZset, now, gets, sent>>

\* Lines 66-82: the record, HSET.
RecordHSet(s) ==
  /\ calls[s].op = "record" /\ calls[s].pc = "hSet"
  /\ redisHashes' = hSet(redisHashes, hashMessage(calls[s].message),
        [ message |-> calls[s].message, zipFile |-> calls[s].zipFile,
          timestamp |-> now, count |-> toString(calls[s].count) ])
  /\ calls' = [calls EXCEPT ![s].pc = "set"]
  /\ reply' = NoReply
  /\ UNCHANGED <<redisStrings, redisZset, now, posts, gets, sent>>

\* Line 85: SET of the count.
RecordSet(s) ==
  /\ calls[s].op = "record" /\ calls[s].pc = "set"
  /\ redisStrings' = Set(redisStrings, hashMessage(calls[s].message),
                         toString(calls[s].count))
  /\ calls' = [calls EXCEPT ![s].pc = "zAdd"]
  /\ reply' = NoReply
  /\ UNCHANGED <<redisHashes, redisZset, now, posts, gets, sent>>

\* A response that calls every occurrence a duplicate (count > 0, as
\* GET /exceptions/search computes isDuplicate).
RecordResponseAsSearch(count) ==
  [ status |-> 200, success |-> TRUE, isDuplicate |-> count > 0,
    duplicateCount |-> count ]

RecordResponse(count) ==
  [ status |-> 200, success |-> TRUE, isDuplicate |-> count > 1,
    duplicateCount |-> count ]

\* Lines 87-105: ZADD with the clock as score, then the response.
RecordZAdd(s) ==
  LET h == hashMessage(calls[s].message)
      response == RecordResponse(calls[s].count)
  IN  /\ calls[s].op = "record" /\ calls[s].pc = "zAdd"
      /\ redisZset' = zAdd(redisZset, now, h)
      /\ calls' = [calls EXCEPT ![s] = IdleCall]
      /\ reply' = Respond(calls[s], response)
      /\ sent' = [k \in DOMAIN sent \cup {h} |->
                    IF k = h
                      THEN Append(SentFor(h),
                                  [message |-> calls[s].message, body |-> response])
                      ELSE sent[k]]
      /\ UNCHANGED <<redisStrings, redisHashes, now, posts, gets>>

-----------------------------------------------------------------------------
(* GET /exceptions/search                                                  *)

\* Lines 121-131: validation, the hash, HGETALL.
SearchStart(s, query) ==
  /\ Free(s)
  /\ gets < MaxReads
  /\ gets' = gets + 1
  /\ IF Falsy(query)
       THEN /\ reply' = Respond(Arrive(s, "search", 0),
                           BadRequest("Missing required query parameter: query"))
            /\ UNCHANGED calls
       ELSE /\ calls' = [calls EXCEPT ![s] =
                  [Arrive(s, "search", MaxCount(SentFor(hashMessage(query)))) EXCEPT
                     !.pc = "get", !.query = query,
                     !.exceptionData = hGetAll(hashMessage(query))]]
            /\ reply' = NoReply
  /\ UNCHANGED <<redisStrings, redisHashes, redisZset, now, posts, sent>>

\* A search that takes the first occurrence for no match (count > 1, as
\* POST /exceptions computes isDuplicate).
SearchResponseAsRecord(query, exceptionData, count) ==
  LET isDuplicate == count > 1
      results == IF isDuplicate THEN <<exceptionData>> ELSE <<>>
  IN  [ status |-> 200, query |-> query, matchCount |-> Len(results),
        matches |-> results, isDuplicate |-> isDuplicate,
        duplicateCount |-> count ]

SearchResponse(query, exceptionData, count) ==
  LET isDuplicate == count > 0
      results == IF isDuplicate THEN <<exceptionData>> ELSE <<>>
  IN  [ status |-> 200, query |-> query, matchCount |-> Len(results),
        matches |-> results, isDuplicate |-> isDuplicate,
        duplicateCount |-> count ]

\* A search that counts itself as an occurrence.
SearchGetCounting(s) ==
  /\ calls[s].op = "search" /\ calls[s].pc = "get"
  /\ reply' = Respond(calls[s],
                SearchResponse(calls[s].query, calls[s].exceptionData,
                               CountOf(hashMessage(calls[s].query))))
  /\ redisStrings' = Set(redisStrings, hashMessage(calls[s].query),
                         toString(CountOf(hashMessage(calls[s].query)) + 1))
  /\ calls' = [calls EXCEPT ![s] = IdleCall]
  /\ UNCHANGED <<redisHashes, redisZset, now, posts, gets, sent>>

\* Lines 132-149: GET of the count, then the response.
SearchGet(s) ==
  /\ calls[s].op = "search" /\ calls[s].pc = "get"
  /\ reply' = Respond(calls[s],
                SearchResponse(calls[s].query, calls[s].exceptionData,
                               CountOf(hashMessage(calls[s].query))))
  /\ calls' = [calls EXCEPT ![s] = IdleCall]
  /\ UNCHANGED <<redisStrings, redisHashes, redisZset, now, posts, gets, sent>>

-----------------------------------------------------------------------------
(* GET /exceptions                                                         *)

ListResponse(exceptions) ==
  [ status |-> 200, totalUniqueExceptions |-> Len(exceptions),
    exceptions |-> exceptions ]

\* Lines 165-168: ZRANGEBYSCORE; with nothing to visit, the response.
ListStart(s) ==
  LET allExceptions == zRangeByScore(redisZset)
  IN  /\ Free(s)
      /\ gets < MaxReads
      /\ gets' = gets + 1
      /\ IF allExceptions = <<>>
           THEN /\ reply' = Respond(Arrive(s, "list", TotalSent), ListResponse(<<>>))
                /\ UNCHANGED calls
           ELSE /\ calls' = [calls EXCEPT ![s] =
                      [Arrive(s, "list", TotalSent) EXCEPT
                         !.pc = "hGetAll", !.allExceptions = allExceptions]]
                /\ reply' = NoReply
      /\ UNCHANGED <<redisStrings, redisHashes, redisZset, now, posts, sent>>

\* Lines 168-170: HGETALL of the next hash.
ListHGetAll(s) ==
  LET messageHash == calls[s].allExceptions[Len(calls[s].exceptions) + 1]
  IN  /\ calls[s].op = "list" /\ calls[s].pc = "hGetAll"
      /\ calls' = [calls EXCEPT ![s].pc = "get",
                                 ![s].exceptionData = hGetAll(messageHash)]
      /\ reply' = NoReply
  /\ UNCHANGED <<redisStrings, redisHashes, redisZset, now, posts, gets, sent>>

\* Lines 171-183: GET of its count, the entry; after the last one, the response.
ListGet(s) ==
  LET messageHash == calls[s].allExceptions[Len(calls[s].exceptions) + 1]
      exceptions == Append(calls[s].exceptions,
                      [ hash |-> messageHash, count |-> CountOf(messageHash),
                        data |-> calls[s].exceptionData ])
  IN  /\ calls[s].op = "list" /\ calls[s].pc = "get"
      /\ IF Len(exceptions) = Len(calls[s].allExceptions)
           THEN /\ reply' = Respond(calls[s], ListResponse(exceptions))
                /\ calls' = [calls EXCEPT ![s] = IdleCall]
           ELSE /\ calls' = [calls EXCEPT ![s].pc = "hGetAll",
                                           ![s].exceptions = exceptions]
                /\ reply' = NoReply
      /\ UNCHANGED <<redisStrings, redisHashes, redisZset, now, posts, gets, sent>>

-----------------------------------------------------------------------------
(* The server: any free slot takes a request, any request in flight takes  *)
(* its next step.                                                          *)

Step(s) ==
  \/ UNCHANGED others /\ \E message \in Messages, zipFile \in ZipFiles :
                           RecordStart(s, message, zipFile)
  \/ UNCHANGED others /\ RecordHSet(s)
  \/ UNCHANGED others /\ RecordSet(s)
  \/ UNCHANGED others /\ RecordZAdd(s)
  \/ UNCHANGED others /\ \E query \in Queries : SearchStart(s, query)
  \/ UNCHANGED others /\ SearchGet(s)
  \/ UNCHANGED others /\ ListStart(s)
  \/ UNCHANGED others /\ ListHGetAll(s)
  \/ UNCHANGED others /\ ListGet(s)

Next == Tick \/ \E s \in Slots : Step(s)

Spec == Init /\ [][Next]_vars

\* The requests one after another: a request arrives when none is in flight.
NoneInFlight == \A s \in Slots : Free(s)

SeqStep(s) ==
  \/ UNCHANGED others /\ NoneInFlight
       /\ \E message \in Messages, zipFile \in ZipFiles : RecordStart(s, message, zipFile)
  \/ UNCHANGED others /\ RecordHSet(s)
  \/ UNCHANGED others /\ RecordSet(s)
  \/ UNCHANGED others /\ RecordZAdd(s)
  \/ UNCHANGED others /\ NoneInFlight /\ \E query \in Queries : SearchStart(s, query)
  \/ UNCHANGED others /\ SearchGet(s)
  \/ UNCHANGED others /\ NoneInFlight /\ ListStart(s)
  \/ UNCHANGED others /\ ListHGetAll(s)
  \/ UNCHANGED others /\ ListGet(s)

SeqNext == Tick \/ \E s \in Slots : SeqStep(s)

SeqSpec == Init /\ [][SeqNext]_vars

-----------------------------------------------------------------------------
(* Storage failures.  Every Redis command of a handler is awaited inside   *)
(* its try block: a command that is rejected (the server answers with an   *)
(* error, the connection is gone) throws, and the catch block answers 500. *)
(* The rejected command is not carried out; the commands the request had   *)
(* completed before stay as they are.                                      *)

\* A storage failure reported as a first occurrence.
ServerErrorAsNew(error) ==
  [status |-> 200, success |-> TRUE, isDuplicate |-> FALSE, duplicateCount |-> 0]

\* Lines 106-112, 150-156: res.status(500).json({ error, details })
ServerError(error) == [status |-> 500, error |-> error, details |-> "error.message"]

\* POST /exceptions, the GET of the count (line 65) is rejected.
RecordGetFail(s, message, zipFile) ==
  /\ Free(s)
  /\ posts < MaxRecords
  /\ posts' = posts + 1
  /\ ~(Falsy(message) \/ Falsy(zipFile))
  /\ reply' = Respond(Arrive(s, "record", 0), ServerError("Error storing exception"))
  /\ UNCHANGED <<redisStrings, redisHashes, redisZset, now, calls, gets, sent>>

\* POST /exceptions, the command it is about to issue (HSET line 77, SET
\* line 85 or ZADD line 88) is rejected.
RecordFail(s) ==
  /\ calls[s].op = "record" /\ calls[s].pc \in {"hSet", "set", "zAdd"}
  /\ reply' = Respond(calls[s], ServerError("Error storing exception"))
  /\ calls' = [calls EXCEPT ![s] = IdleCall]
  /\ UNCHANGED <<redisStrings, redisHashes, redisZset, now, posts, gets, sent>>

\* GET /exceptions/search, the HGETALL (line 131) is rejected.
SearchHGetAllFail(s, query) ==
  /\ Free(s)
  /\ gets < MaxReads
  /\ gets' = gets + 1
  /\ ~Falsy(query)
  /\ reply' = Respond(Arrive(s, "search", 0), ServerError("Error searching exceptions"))
  /\ UNCHANGED <<redisStrings, redisHashes, redisZset, now, calls, posts, sent>>

\* GET /exceptions/search, the GET of the count (line 132) is rejected.
SearchGetFail(s) ==
  /\ calls[s].op = "search" /\ calls[s].pc = "get"
  /\ reply' = Respond(calls[s], ServerError("Error searching exceptions"))
  /\ calls' = [calls EXCEPT ![s] = IdleCall]
  /\ UNCHANGED <<redisStrings, redisHashes, redisZset, now, posts, gets, sent>>

\* The requests one after another, each Redis command of a Record or a
\* Search may fail.
FailStep(s) ==
  \/ SeqStep(s)
  \/ UNCHANGED others /\ NoneInFlight
       /\ \E message \in Messages, zipFile \in ZipFiles : RecordGetFail(s, message, zipFile)
  \/ UNCHANGED others /\ RecordFail(s)
  \/ UNCHANGED others /\ NoneInFlight /\ \E query \in Queries : SearchHGetAllFail(s, query)
  \/ UNCHANGED others /\ SearchGetFail(s)

FailNext == Tick \/ \E s \in Slots : FailStep(s)

FailSpec == Init /\ [][FailNext]_vars

-----------------------------------------------------------------------------
(* The in-memory revision of the registry.  Its handlers have no await:    *)
(* each runs from the request to the response without interruption.        *)
(* exceptionDatabase is a JavaScript object: its keys in insertion order.  *)

\* exceptionDatabase[normalized] || []
RecordsOf(normalized) ==
  IF \E i \in 1..Len(exceptionDatabase) : exceptionDatabase[i].normalized = normalized
    THEN LET i == CHOOSE j \in 1..Len(exceptionDatabase) :
                    exceptionDatabase[j].normalized = normalized
         IN  exceptionDatabase[i].records
    ELSE <<>>

\* exceptionDatabase[normalized].push(exceptionRecord), after the key was
\* given an empty array if it had none.
PushRecord(normalized, exceptionRecord) ==
  IF \E i \in 1..Len(exceptionDatabase) : exceptionDatabase[i].normalized = normalized
    THEN [i \in 1..Len(exceptionDatabase) |->
            IF exceptionDatabase[i].normalized = normalized
              THEN [exceptionDatabase[i] EXCEPT !.records = Append(@, exceptionRecord)]
              ELSE exceptionDatabase[i]]
    ELSE Append(exceptionDatabase,
                [normalized |-> normalized, records |-> <<exceptionRecord>>])

\* exceptionDatabase is a plain object ({}): a key it does not own is looked
\* up in Object.prototype.  Of the names found there, these are lower-case
\* and so can be a normalized message.  What is found is an object (truthy)
\* that is not an array.
InheritedKey(normalized) ==
  normalized \in { <<"_", "_", "p", "r", "o", "t", "o", "_", "_">>,
                   <<"c", "o", "n", "s", "t", "r", "u", "c", "t", "o", "r">> }

\* POST /exceptions, lines 36-75: the map after the request and the
\* response.  For an inherited key `!exceptionDatabase[normalized]` is false,
\* no array is put in, and `.push` of what is found is not a function: the
\* TypeError goes to the catch block.
MemRecordResult(message, zipFile) ==
  LET normalized == normalizeMessage(message)
      exceptionRecord ==
        [ message |-> message, zipFile |-> zipFile, timestamp |-> now,
          count |-> Len(RecordsOf(normalized)) + 1 ]
  IN  IF Falsy(message) \/ Falsy(zipFile)
        THEN [ db |-> exceptionDatabase,
               body |-> BadRequest("Missing required fields: message, zipFile") ]
        ELSE IF InheritedKey(normalized)
          THEN [ db |-> exceptionDatabase,
                 body |-> ServerError("Error storing exception") ]
          ELSE [ db |-> PushRecord(normalized, exceptionRecord),
                 body |-> RecordResponse(exceptionRecord.count) ]

\* POST /exceptions
MemRecord(message, zipFile) ==
  /\ posts < MaxRecords
  /\ posts' = posts + 1
  /\ exceptionDatabase' = MemRecordResult(message, zipFile).db
  /\ reply' = Respond(Arrive(1, "record", 0), MemRecordResult(message, zipFile).body)
  /\ UNCHANGED <<redisStrings, redisHashes, redisZset, now, calls, gets, sent,
                 uploads, archives, notifications>>

\* GET /exceptions/search
MemSearch(query) ==
  LET results == RecordsOf(normalizeMessage(query))
  IN  /\ gets < MaxReads
      /\ gets' = gets + 1
      /\ reply' = Respond(Arrive(1, "search", 0),
                     IF Falsy(query)
                       THEN BadRequest("Missing required query parameter: query")
                       ELSE [ status |-> 200, query |-> query,
                              matchCount |-> Len(results), matches |-> results,
                              isDuplicate |-> Len(results) > 0 ])
      /\ UNCHANGED <<redisStrings, redisHashes, redisZset, now, calls, posts, sent,
                     exceptionDatabase, uploads, archives, notifications>>

\* GET /exceptions
MemList ==
  LET allExceptions ==
        [i \in 1..Len(exceptionDatabase) |->
           [ normalized |-> exceptionDatabase[i].normalized,
             count |-> Len(exceptionDatabase[i].records),
             records |-> exceptionDatabase[i].records ]]
  IN  /\ gets < MaxReads
      /\ gets' = gets + 1
      /\ reply' = Respond(Arrive(1, "list", 0), ListResponse(allExceptions))
      /\ UNCHANGED <<redisStrings, redisHashes, redisZset, now, calls, posts, sent,
                     exceptionDatabase, uploads, archives, notifications>>

MemNext ==
  \/ Tick
  \/ UNCHANGED beyond
       /\ \E message \in Messages, zipFile \in ZipFiles : MemRecord(message, zipFile)
  \/ UNCHANGED beyond /\ \E query \in Queries : MemSearch(query)
  \/ UNCHANGED beyond /\ MemList

MemSpec == Init /\ [][MemNext]_vars

-----------------------------------------------------------------------------
(* The two revisions side by side: the same requests, one after another,   *)
(* are given to the Redis-backed handlers and to the in-memory handlers.   *)
(* The in-memory handler is run at the step at which the Redis-backed      *)
(* handler answers.                                                        *)

PairMessages ==
  { <<"X">>, <<" ", "x", " ">>, <<"_", "_", "p", "r", "o", "t", "o", "_", "_">>, <<>> }

\* POST /exceptions that fails validation: both answer 400 and store nothing.
PairRecordStart(s, message, zipFile) ==
  /\ RecordStart(s, message, zipFile)
  /\ UNCHANGED others

\* POST /exceptions answered: the last step of the Redis-backed handler and
\* the whole of the in-memory handler.
PairRecordZAdd(s) ==
  /\ RecordZAdd(s)
  /\ exceptionDatabase' = MemRecordResult(calls[s].message, calls[s].zipFile).db
  /\ UNCHANGED <<uploads, archives, notifications, beyond>>

PairStep(s) ==
  \/ NoneInFlight
       /\ \E message \in PairMessages, zipFile \in ZipFiles :
            PairRecordStart(s, message, zipFile)
  \/ UNCHANGED others /\ RecordHSet(s)
  \/ UNCHANGED others /\ RecordSet(s)
  \/ PairRecordZAdd(s)
  \/ UNCHANGED others /\ NoneInFlight /\ ListStart(s)
  \/ UNCHANGED others /\ ListHGetAll(s)
  \/ UNCHANGED others /\ ListGet(s)

PairNext == Tick \/ \E s \in Slots : PairStep(s)

PairSpec == Init /\ [][PairNext]_vars

-----------------------------------------------------------------------------
(* The upload service: processExtractedFiles.  It is an async function;    *)
(* one action is the code from one await to the next.  A request to the    *)
(* registry is taken up by the registry's handler in the slot of the       *)
(* upload, and the response of the handler is the value the await yields.  *)

\* The members of an extracted archive, in the order readdir lists them:
\* name and content of each.
Log(content) == [name |-> <<"l", "o", "g">>, content |-> content]

Message(content) ==
  [name |-> <<"m", "e", "s", "s", "a", "g", "e">>, content |-> content]

Error(content) == [name |-> <<"E", "r", "r", "o", "r">>, content |-> content]

Support(content) ==
  [name |-> <<"s", "u", "p", "p", "o", "r", "t">>, content |-> content]

Archives ==
  { <<Log(<<"X">>)>>,
    <<Log(<<" ", "x", " ">>)>>,
    <<Log(<<"y">>), Message(<<"y">>), Error(<<"X">>), Support(<<"X">>)>>,
    <<Log(<<" ">>)>> }

FileNames == {"a.zip", "b.zip"}

\* String.prototype.includes
Includes(name, word) ==
  \E i \in 1..(Len(name) - Len(word) + 1) : SubSeq(name, i, i + Len(word) - 1) = word

\* Lines 113-115: the test of the message file.
IsMessageFile(f) ==
  \/ Includes(toLowerCase(f), <<"m", "e", "s", "s", "a", "g", "e">>)
  \/ Includes(toLowerCase(f), <<"s", "u", "p", "p", "o", "r", "t">>)

\* Lines 118-120: the test of the exception file.
IsExceptionFile(f) ==
  \/ Includes(toLowerCase(f), <<"e", "x", "c", "e", "p", "t", "i", "o", "n">>)
  \/ Includes(toLowerCase(f), <<"e", "r", "r", "o", "r">>)
  \/ Includes(toLowerCase(f), <<"l", "o", "g">>)

\* The last of the positions that pass the test.
FindLast(hits) ==
  IF hits = {} THEN 0 ELSE CHOOSE i \in hits : \A j \in hits : i >= j

\* Array.prototype.find: of the positions that pass the test the first one,
\* 0 (undefined) when none does.
Find(hits) ==
  IF hits = {} THEN 0 ELSE CHOOSE i \in hits : \A j \in hits : i <= j

messageFile(files) == Find({i \in 1..Len(files) : IsMessageFile(files[i].name)})

exceptionFile(files) == Find({i \in 1..Len(files) : IsExceptionFile(files[i].name)})

\* extractFileContent: the content of the member, trimmed.
extractFileContent(files, i) == trim(files[i].content)

\* Lines 133-139: the body of the POST /notify of workflow 1.
MessageNotification(messageContent, fileName, file) ==
  [ type |-> "message", title |-> <<"New Support Message">>,
    message |-> messageContent, zipFile |-> fileName,
    details |-> [file |-> file] ]

\* Lines 168-178: the body of the POST /notify of a duplicate.
DuplicateNotification(exceptionContent, fileName, file, storeResult) ==
  [ type |-> "duplicate_exception",
    title |-> <<"Duplicate Exception (Occurrence #",
                toString(storeResult.duplicateCount), ")">>,
    message |-> exceptionContent, zipFile |-> fileName,
    details |-> [ file |-> file, duplicateCount |-> storeResult.duplicateCount,
                  exception |-> SubSeq(exceptionContent, 1,
                                       IF Len(exceptionContent) < 100
                                         THEN Len(exceptionContent) ELSE 100) ] ]

\* `if (storeResult.isDuplicate)`: a response without the field is falsy.
IsDuplicate(storeResult) ==
  "isDuplicate" \in DOMAIN storeResult /\ storeResult.isDuplicate

\* Lines 107-120: processExtractedFiles is called for an extracted archive
\* and lists its members.
ProcessExtractedFiles(u, files, fileName) ==
  /\ uploads[u].pc = "idle"
  /\ archives < MaxUploads
  /\ archives' = archives + 1
  /\ uploads' = [uploads EXCEPT ![u] =
                   [pc |-> "workflow1", fileName |-> fileName, files |-> files]]
  /\ reply' = NoReply
  /\ UNCHANGED <<redisStrings, redisHashes, redisZset, now, calls, posts, gets, sent,
                 exceptionDatabase, notifications>>

\* Lines 124-140: workflow 1, the POST /notify for the message file.
Workflow1(u) ==
  LET file == messageFile(uploads[u].files)
      messageContent ==
        IF file = 0 THEN <<>> ELSE extractFileContent(uploads[u].files, file)
  IN  /\ uploads[u].pc = "workflow1"
      /\ IF file # 0 /\ ~Falsy(messageContent)
           THEN /\ notifications' =
                     Append(notifications,
                            MessageNotification(messageContent, uploads[u].fileName,
                                                uploads[u].files[file].name))
                /\ uploads' = [uploads EXCEPT ![u].pc = "message"]
           ELSE /\ uploads' = [uploads EXCEPT ![u].pc = "workflow2"]
                /\ UNCHANGED notifications
      /\ reply' = NoReply
      /\ UNCHANGED <<redisStrings, redisHashes, redisZset, now, calls, posts, gets, sent,
                     exceptionDatabase, archives>>

\* Lines 134-143: the notify service has answered (or the request failed:
\* makeHttpRequest resolves either way).
MessageNotified(u) ==
  /\ uploads[u].pc = "message"
  /\ uploads' = [uploads EXCEPT ![u].pc = "workflow2"]
  /\ reply' = NoReply
  /\ UNCHANGED <<redisStrings, redisHashes, redisZset, now, calls, posts, gets, sent,
                 exceptionDatabase, archives, notifications>>

\* Lines 149-162: workflow 2, the POST /exceptions for the exception file;
\* without one, processing is complete.
Workflow2(u) ==
  LET file == exceptionFile(uploads[u].files)
      exceptionContent ==
        IF file = 0 THEN <<>> ELSE extractFileContent(uploads[u].files, file)
  IN  /\ uploads[u].pc = "workflow2"
      /\ IF file # 0 /\ ~Falsy(exceptionContent)
           THEN /\ RecordStart(u, exceptionContent, uploads[u].fileName)
                /\ uploads' = [uploads EXCEPT ![u].pc = "store"]
           ELSE /\ uploads' = [uploads EXCEPT ![u] = IdleUpload]
                /\ reply' = NoReply
                /\ UNCHANGED <<redisStrings, redisHashes, redisZset, now, calls, posts,
                               gets, sent>>
      /\ UNCHANGED <<exceptionDatabase, archives, notifications>>

\* The variant that notifies of new exceptions too.
ExceptionStoredNotifyBoth(u) ==
  LET file == exceptionFile(uploads[u].files)
      exceptionContent == extractFileContent(uploads[u].files, file)
      storeResult == reply'.body
  IN  /\ uploads[u].pc = "store"
      /\ RecordZAdd(u)
      /\ notifications' =
            Append(notifications,
                   DuplicateNotification(exceptionContent, uploads[u].fileName,
                                         uploads[u].files[file].name, storeResult))
      /\ uploads' = [uploads EXCEPT ![u].pc = "notify"]
      /\ UNCHANGED <<exceptionDatabase, archives>>

\* Lines 159-190: the registry answers; for a duplicate the POST /notify,
\* for a new exception nothing more.
ExceptionStored(u) ==
  LET file == exceptionFile(uploads[u].files)
      exceptionContent == extractFileContent(uploads[u].files, file)
      storeResult == reply'.body
  IN  /\ uploads[u].pc = "store"
      /\ RecordZAdd(u)
      /\ IF IsDuplicate(storeResult)
           THEN /\ notifications' =
                     Append(notifications,
                            DuplicateNotification(exceptionContent, uploads[u].fileName,
                                                  uploads[u].files[file].name, storeResult))
                /\ uploads' = [uploads EXCEPT ![u].pc = "notify"]
           ELSE /\ uploads' = [uploads EXCEPT ![u] = IdleUpload]
                /\ UNCHANGED notifications
      /\ UNCHANGED <<exceptionDatabase, archives>>

\* Lines 168-185: the notify service has answered (or the request failed).
DuplicateNotified(u) ==
  /\ uploads[u].pc = "notify"
  /\ uploads' = [uploads EXCEPT ![u] = IdleUpload]
  /\ reply' = NoReply
  /\ UNCHANGED <<redisStrings, redisHashes, redisZset, now, calls, posts, gets, sent,
                 exceptionDatabase, archives, notifications>>

UploadStep(u) ==
  \/ UNCHANGED beyond
       /\ \E files \in Archives, fileName \in FileNames :
            ProcessExtractedFiles(u, files, fileName)
  \/ UNCHANGED beyond /\ Workflow1(u)
  \/ UNCHANGED beyond /\ MessageNotified(u)
  \/ UNCHANGED beyond /\ Workflow2(u)
  \/ UNCHANGED others /\ RecordHSet(u)
  \/ UNCHANGED others /\ RecordSet(u)
  \/ UNCHANGED beyond /\ ExceptionStored(u)
  \/ UNCHANGED beyond /\ DuplicateNotified(u)

UploadNext == Tick \/ \E u \in Slots : UploadStep(u)

UploadSpec == Init /\ [][UploadNext]_vars

-----------------------------------------------------------------------------
(* POST /upload with services that fail.  makeHttpRequest resolves with    *)
(* the parsed body whatever the status code, and with { error } when the   *)
(* connection fails; it never rejects.  The archives are uploaded one      *)
(* after another.                                                          *)

\* Lines 269-274: res.json of POST /upload (the size of the file is left out).
UploadResponse(fileName) ==
  [ status |-> 200, success |-> TRUE, message |-> "File received and logged",
    file |-> fileName ]

\* Lines 257-267: POST /upload with an archive; multer has saved it and it
\* is extracted; processExtractedFiles lists its members.
Upload(u, files, fileName) ==
  /\ \A v \in Slots : uploads[v].pc = "idle"
  /\ ProcessExtractedFiles(u, files, fileName)
  /\ res' = [res EXCEPT ![u] = NoResponse]
  /\ failed' = [failed EXCEPT ![u] = FALSE]

\* Lines 259-261: POST /upload without a file.
UploadNoFile(u) ==
  /\ \A v \in Slots : uploads[v].pc = "idle"
  /\ res' = [res EXCEPT ![u] = BadRequest("No file uploaded")]
  /\ failed' = [failed EXCEPT ![u] = FALSE]
  /\ reply' = NoReply
  /\ UNCHANGED <<redisStrings, redisHashes, redisZset, now, calls, posts, gets, sent,
                 exceptionDatabase, uploads, archives, notifications>>

\* Lines 238-250, 275-281: the archive cannot be read or unpacked; the
\* promise of extractZipFile is rejected.
UploadExtractFail(u) ==
  /\ \A v \in Slots : uploads[v].pc = "idle"
  /\ res' = [res EXCEPT ![u] = ServerError("Error processing file")]
  /\ failed' = [failed EXCEPT ![u] = FALSE]
  /\ reply' = NoReply
  /\ UNCHANGED <<redisStrings, redisHashes, redisZset, now, calls, posts, gets, sent,
                 exceptionDatabase, uploads, archives, notifications>>

\* Lines 244-245, 266-274: when processExtractedFiles returns, the promise
\* of extractZipFile resolves and the handler answers.
Answered(u) ==
  res' = IF uploads[u].pc # "idle" /\ uploads'[u].pc = "idle"
           THEN [res EXCEPT ![u] = UploadResponse(uploads[u].fileName)]
           ELSE res

\* Lines 159-190: the POST /exceptions fails: the registry answers 500 for a
\* Redis command that was rejected, or the connection breaks.  storeResult
\* has no isDuplicate, the branch of the new exception is taken.
ExceptionStoreFailed(u) ==
  /\ uploads[u].pc = "store"
  /\ RecordFail(u)
  /\ uploads' = [uploads EXCEPT ![u] = IdleUpload]
  /\ UNCHANGED <<exceptionDatabase, archives, notifications>>

\* The call the step waited for has failed.
CallFailed(u) == failed' = [failed EXCEPT ![u] = TRUE]

\* The directories are left alone: the archive is taken as saved and
\* extracted, the notify service as the receiver of the requests.
disk == <<notificationsDir, uploadsDir>>

OutageStep(u) ==
  \/ UNCHANGED disk
       /\ \E files \in Archives, fileName \in FileNames : Upload(u, files, fileName)
  \/ UNCHANGED disk /\ UploadNoFile(u)
  \/ UNCHANGED disk /\ UploadExtractFail(u)
  \/ UNCHANGED disk /\ Workflow1(u) /\ Answered(u) /\ UNCHANGED failed
  \/ UNCHANGED disk /\ MessageNotified(u) /\ Answered(u) /\ UNCHANGED failed
  \/ UNCHANGED disk /\ MessageNotified(u) /\ Answered(u) /\ CallFailed(u)
  \/ UNCHANGED disk /\ Workflow2(u) /\ Answered(u) /\ UNCHANGED failed
  \/ UNCHANGED others /\ RecordHSet(u)
  \/ UNCHANGED others /\ RecordSet(u)
  \/ UNCHANGED disk /\ ExceptionStored(u) /\ Answered(u) /\ UNCHANGED failed
  \/ UNCHANGED disk /\ ExceptionStoreFailed(u) /\ Answered(u) /\ CallFailed(u)
  \/ UNCHANGED disk /\ DuplicateNotified(u) /\ Answered(u) /\ UNCHANGED failed
  \/ UNCHANGED disk /\ DuplicateNotified(u) /\ Answered(u) /\ CallFailed(u)

\* One upload at a time: each is taken in the first slot.
OutageNext == Tick \/ OutageStep(1)

OutageSpec == Init /\ [][OutageNext]_vars

-----------------------------------------------------------------------------
(* The notify service.  Its handlers have no await: each runs from the     *)
(* request to the response without interruption.  A notification is a file *)
(* of notificationsDir.                                                    *)

NotifyTypes == { "message", "duplicate_exception", "" }

NotifyTitles == { <<"New Support Message">>, <<>> }

NotifyMessages == { <<"X">>, <<"y">>, <<>> }

\* Date.prototype.toISOString of the clock value t (milliseconds, t < 10):
\* the date, then hours, minutes, seconds and three digits of milliseconds.
toISOString(t) ==
  <<"1970-01-01", "T", "0", "0", ":", "0", "0", ":", "0", "0", ".", "0", "0">>
    \o toString(t) \o <<"Z">>

\* replace(/[:.]/g, '-')
ReplaceColonsAndDots(s) ==
  [i \in 1..Len(s) |-> IF s[i] \in {":", "."} THEN "-" ELSE s[i]]

\* Lines 27-28: `${type}_${timestamp}.json`.
NotificationFileName(type, t) ==
  <<type, "_">> \o ReplaceColonsAndDots(toISOString(t)) \o <<".json">>

\* fs.writeFileSync: the file is created, or its content replaced.
writeFileSync(dir, fileName, content) ==
  [f \in DOMAIN dir \cup {fileName} |-> IF f = fileName THEN content ELSE dir[f]]

\* fs.readdirSync: the names of the files, each once, in an order the code
\* does not choose.
RECURSIVE readdirSync(_)
readdirSync(names) ==
  IF names = {} THEN <<>>
  ELSE LET f == CHOOSE g \in names : TRUE
       IN  <<f>> \o readdirSync(names \ {f})

\* Lines 47-90: POST /notify with writeNotificationToFile (lines 26-41).
\* The clock is read twice, for the name of the file and for the timestamp
\* in it; it may have moved on in between.
Notify(type, title, message, zipFile) ==
  LET notificationData ==
        [ type |-> type, title |-> title, message |-> message,
          zipFile |-> zipFile,   \* `zipFile || null`: null is written "" here
          details |-> <<>> ]     \* `details || {}`
      fileName == NotificationFileName(type, now)
      notification ==
        [ type |-> type, timestamp |-> toISOString(now'), data |-> notificationData,
          status |-> "unread" ]
  IN  /\ IF Falsy(type) \/ Falsy(title) \/ Falsy(message)
           THEN /\ reply' = Respond(Arrive(1, "notify", 0),
                               BadRequest("Missing required fields: type, title, message"))
                /\ UNCHANGED <<notificationsDir, now>>
           ELSE /\ now' \in {t \in {now, now + 1} : t <= MaxTime}
                /\ notificationsDir' = writeFileSync(notificationsDir, fileName, notification)
                /\ reply' = Respond(Arrive(1, "notify", 0),
                               [ status |-> 200, success |-> TRUE,
                                 message |-> "Notification sent", file |-> fileName,
                                 filePath |-> <<"notifications", "/">> \o fileName ])
      /\ UNCHANGED <<redisStrings, redisHashes, redisZset, calls, posts, gets, sent,
                     exceptionDatabase, uploads, archives, notifications>>

\* Lines 95-114: GET /notifications.
GetNotifications ==
  LET files == readdirSync(DOMAIN notificationsDir)
      read == [i \in 1..Len(files) |-> notificationsDir[files[i]]]
  IN  /\ reply' = Respond(Arrive(1, "notifications", 0),
                     [status |-> 200, count |-> Len(read), notifications |-> read])
      /\ UNCHANGED <<redisStrings, redisHashes, redisZset, now, calls, posts, gets, sent,
                     exceptionDatabase, uploads, archives, notifications,
                     notificationsDir>>

\* Lines 119-131: GET /notifications/count.
GetNotificationsCount ==
  LET files == readdirSync(DOMAIN notificationsDir)
  IN  /\ reply' = Respond(Arrive(1, "count", 0), [status |-> 200, count |-> Len(files)])
      /\ UNCHANGED <<redisStrings, redisHashes, redisZset, now, calls, posts, gets, sent,
                     exceptionDatabase, uploads, archives, notifications,
                     notificationsDir>>

NotifyNext ==
  \/ Tick
  \/ UNCHANGED handler
       /\ \E type \in NotifyTypes, title \in NotifyTitles, message \in NotifyMessages,
             zipFile \in ZipFiles : Notify(type, title, message, zipFile)
  \/ UNCHANGED handler /\ GetNotifications
  \/ UNCHANGED handler /\ GetNotificationsCount

NotifySpec == Init /\ [][NotifyNext]_vars

-----------------------------------------------------------------------------
(* POST /upload with its directory.  multer saves the archive under the    *)
(* name the client gave it; extractZipFile unpacks the saved file into a   *)
(* directory named after the archive and the clock; when the extraction    *)
(* has finished, processExtractedFiles lists that directory.  Uploads are  *)
(* interleaved between these steps and at the awaits of                    *)
(* processExtractedFiles.                                                  *)

DiskArchives ==
  { <<Log(<<"X">>)>>,
    <<Log(<<"y">>), Message(<<"y">>)>> }

\* Lines 26-33: the path multer saves the archive to.
FilePath(fileName) == <<fileName>>

\* Line 236: `${fileName}_extracted_${Date.now()}`
ExtractDir(fileName, t) == <<fileName, "_extracted_">> \o toString(t)

\* A directory after the members of an archive were written into it: a
\* member of the same name is replaced, any other is added.
Extracted(dir, zip) ==
  LET Named(members, name) == {i \in 1..Len(members) : members[i].name = name}
      replaced ==
        [i \in 1..Len(dir) |->
           IF Named(zip, dir[i].name) = {} THEN dir[i]
           ELSE zip[CHOOSE j \in Named(zip, dir[i].name) : TRUE]]
      added == SelectSeq(zip, LAMBDA m : Named(dir, m.name) = {})
  IN  replaced \o added

\* The members of a directory that does not exist yet: none.
DirOf(path) == IF path \in DOMAIN uploadsDir THEN uploadsDir[path] ELSE <<>>

\* What an upload that has listed its directory reads from it: the names it
\* listed, each with the content the file has now.
ReadAgain(files, dir) ==
  [i \in 1..Len(files) |->
     LET same == {j \in 1..Len(dir) : dir[j].name = files[i].name}
     IN  IF same = {} THEN files[i] ELSE dir[CHOOSE j \in same : TRUE]]

\* Lines 26-36, 257-264: POST /upload; multer has written the archive to
\* uploadsDir under its original name.
Save(u, zip, fileName) ==
  /\ uploads[u].pc = "idle"
  /\ archives < MaxUploads
  /\ archives' = archives + 1
  /\ uploadsDir' = writeFileSync(uploadsDir, FilePath(fileName), zip)
  /\ uploads' = [uploads EXCEPT ![u] =
                   [ pc |-> "saved", fileName |-> fileName, files |-> <<>>,
                     zip |-> zip, extractDir |-> <<>> ]]
  /\ reply' = NoReply
  /\ UNCHANGED <<redisStrings, redisHashes, redisZset, now, calls, posts, gets, sent,
                 exceptionDatabase, notifications>>

\* Lines 235-240: extractZipFile reads the saved file and unpacks it into
\* extractDir.  An upload that has listed that directory reads its files
\* when it comes to them (lines 125, 150).
Extract(u) ==
  LET extractDir == ExtractDir(uploads[u].fileName, now)
      dir == Extracted(DirOf(extractDir), uploadsDir[FilePath(uploads[u].fileName)])
  IN  /\ uploads[u].pc = "saved"
      /\ uploadsDir' = writeFileSync(uploadsDir, extractDir, dir)
      /\ uploads' =
           [v \in Slots |->
              IF v = u
                THEN [uploads[u] EXCEPT !.pc = "extracted", !.extractDir = extractDir]
              ELSE IF /\ uploads[v].pc \in {"workflow1", "message", "workflow2"}
                      /\ uploads[v].extractDir = extractDir
                THEN [uploads[v] EXCEPT !.files = ReadAgain(uploads[v].files, dir)]
              ELSE uploads[v]]
      /\ reply' = NoReply
      /\ UNCHANGED <<redisStrings, redisHashes, redisZset, now, calls, posts, gets, sent,
                     exceptionDatabase, archives, notifications>>

\* Lines 241-245, 107-111: the extraction has finished; logZipContents,
\* then processExtractedFiles lists the directory.
ListExtracted(u) ==
  /\ uploads[u].pc = "extracted"
  /\ uploads' = [uploads EXCEPT ![u].pc = "workflow1",
                                ![u].files = uploadsDir[uploads[u].extractDir]]
  /\ reply' = NoReply
  /\ UNCHANGED <<redisStrings, redisHashes, redisZset, now, calls, posts, gets, sent,
                 exceptionDatabase, archives, notifications, uploadsDir>>

\* What the uploads leave alone.
apart == <<notificationsDir, res, failed>>

DiskStep(u) ==
  \/ UNCHANGED apart
       /\ \E zip \in DiskArchives, fileName \in FileNames : Save(u, zip, fileName)
  \/ UNCHANGED apart /\ Extract(u)
  \/ UNCHANGED apart /\ ListExtracted(u)
  \/ UNCHANGED beyond /\ Workflow1(u)
  \/ UNCHANGED beyond /\ MessageNotified(u)
  \/ UNCHANGED beyond /\ Workflow2(u)
  \/ UNCHANGED others /\ RecordHSet(u)
  \/ UNCHANGED others /\ RecordSet(u)
  \/ UNCHANGED beyond /\ ExceptionStored(u)
  \/ UNCHANGED beyond /\ DuplicateNotified(u)

DiskNext == Tick \/ \E u \in Slots : DiskStep(u)

DiskSpec == Init /\ [][DiskNext]_vars

-----------------------------------------------------------------------------
(* What the specification says of the registry.                            *)

\* The (hash, position) of every request in the log of success responses.
Logged == UNION { {<<h, i>> : i \in 1..Len(sent[h])} : h \in DOMAIN sent }

SameLetter(a, b) == a = b \/ {a, b} = {"X", "x"} \/ {a, b} = {"Y", "y"}

AllSpaces(t, from, to) == \A i \in from..to : t[i] = " "

\* The ways to drop p leading and q trailing spaces of text t.
Paddings(t) ==
  { x \in (0..Len(t)) \X (0..Len(t)) :
      /\ x[1] + x[2] <= Len(t)
      /\ AllSpaces(t, 1, x[1])
      /\ AllSpaces(t, Len(t) - x[2] + 1, Len(t)) }

\* Texts a and b differ only in letter case and in leading/trailing spaces:
\* with some leading and trailing spaces of each dropped, the rest is the
\* same up to case.
OnlyCaseAndPadding(a, b) ==
  \E x \in Paddings(a) : \E y \in Paddings(b) :
    /\ Len(a) - x[1] - x[2] = Len(b) - y[1] - y[2]
    /\ \A i \in 1..(Len(a) - x[1] - x[2]) : SameLetter(a[x[1] + i], b[y[1] + i])

\* The POST /exceptions requests answered with success whose message is
\* text up to case and padding.
CompletedFor(text) ==
  Cardinality({e \in Logged : OnlyCaseAndPadding(sent[e[1]][e[2]].message, text)})

RECURSIVE SumCounts(_)
SumCounts(exceptions) ==
  IF exceptions = <<>> THEN 0 ELSE Head(exceptions).count + SumCounts(Tail(exceptions))

\* The response in `reply` answers a GET that arrived when no POST
\* /exceptions was running, and none has arrived since.
AfterCompletedRecords ==
  reply.quietBefore /\ NoRecordInFlight /\ TotalSent = reply.sentBefore

\* C1: once all the Record calls for a fingerprint have completed, the stored
\* count of the fingerprint is the number of those calls (no lost update),
\* whatever the interleaving of their storage steps.
C1_NoLostUpdate ==
  NoRecordInFlight => \A h \in DOMAIN sent : CountOf(h) = Len(sent[h])

\* C2: no two Record calls for one fingerprint return the same
\* occurrenceCount, so at most one of them returns isDuplicate = false.
C2_DistinctCounts ==
  \A h \in DOMAIN sent : \A i, j \in 1..Len(sent[h]) :
    i # j => sent[h][i].body.duplicateCount # sent[h][j].body.duplicateCount

\* C3: every write to the counter of a fingerprint writes a value strictly
\* greater than the value it replaces.
C3_CounterStrictlyIncreases ==
  [][\A s \in Slots :
       RecordSet(s) =>
         CountOf(hashMessage(calls[s].message))' > CountOf(hashMessage(calls[s].message))]_vars

\* C4: with the Record calls one after another, the n-th Record call for a
\* fingerprint returns occurrenceCount n and isDuplicate = (n > 1): the first
\* returns {false, 1}, the second {true, 2}, whatever the archives.
C4_SequentialCounts ==
  \A h \in DOMAIN sent : \A n \in 1..Len(sent[h]) :
    /\ sent[h][n].body.duplicateCount = n
    /\ sent[h][n].body.isDuplicate = (n > 1)

\* The second Record call for a fingerprint, from archive b.zip, is answered.
C4_Witness ==
  \E h \in DOMAIN sent :
    /\ Len(sent[h]) = 2
    /\ reply.op = "record" /\ reply.body = sent[h][2].body
    /\ reply.body.isDuplicate /\ reply.body.duplicateCount = 2
    /\ redisHashes[h].zipFile = "b.zip"

\* C5: two messages share a counter exactly when they differ only in letter
\* case and leading/trailing whitespace: the message of a Record call is
\* logged under the key of exactly the messages it differs from in nothing
\* else, and the call returns the number of Record calls with such a message
\* so far (2 and isDuplicate for the second), from any archive.
C5_CaseAndWhitespace ==
  (reply.op = "record" /\ reply.body.status = 200)
    => \A h \in DOMAIN sent :
         LET last == sent[h][Len(sent[h])]
         IN  /\ \A d \in Logged :
                   OnlyCaseAndPadding(sent[d[1]][d[2]].message, last.message)
                     <=> d[1] = h
             /\ last.body.duplicateCount = CompletedFor(last.message)
             /\ last.body.isDuplicate = (CompletedFor(last.message) > 1)

\* "X", then " x " from archive b.zip: the second is occurrence 2;
\* "y" has a counter of its own.
C5_Witness ==
  \E h, k \in DOMAIN sent :
    /\ h # k
    /\ Len(sent[h]) = 2
    /\ sent[h][1].message = <<"X">> /\ sent[h][2].message = <<" ", "x", " ">>
    /\ reply.op = "record" /\ reply.body = sent[h][2].body
    /\ reply.body.duplicateCount = 2 /\ reply.body.isDuplicate
    /\ redisHashes[h].zipFile = "b.zip"
    /\ sent[k][1].message = <<"y">>

C7_SearchAfterRecord ==
  (reply.op = "search" /\ reply.body.status = 200 /\ reply.sentBefore >= 1)
    => /\ reply.body.matchCount = 1
       /\ reply.body.duplicateCount >= reply.sentBefore

\* C8: the order of the index is append-only: a Record of a fingerprint that
\* is in the index (a repeat) leaves the order ListAll reads unchanged.
C8_IndexAppendOnly ==
  [][\A s \in Slots :
       (RecordZAdd(s) /\ \E e \in redisZset : e.value = hashMessage(calls[s].message))
         => zRangeByScore(redisZset') = zRangeByScore(redisZset)]_vars

\* C9: after completed Record calls with N distinct fingerprints, ListAll
\* returns exactly N entries, one per fingerprint and none twice, and
\* totalUniqueExceptions = N.
C9_ListAllDistinct ==
  (reply.op = "list" /\ AfterCompletedRecords)
    => LET exceptions == reply.body.exceptions
       IN  /\ Len(exceptions) = Cardinality(DOMAIN sent)
           /\ reply.body.totalUniqueExceptions = Cardinality(DOMAIN sent)
           /\ {exceptions[i].hash : i \in 1..Len(exceptions)} = DOMAIN sent
           /\ \A i, j \in 1..Len(exceptions) :
                 i # j => exceptions[i].hash # exceptions[j].hash

\* ListAll after two distinct messages and one repeat: two entries.
C9_Witness ==
  /\ reply.op = "list" /\ AfterCompletedRecords
  /\ TotalSent = 3
  /\ reply.body.totalUniqueExceptions = 2

\* C10: after N + M completed Record calls and with none in flight, the
\* occurrence counts ListAll returns sum to N + M.
C10_ListAllSum ==
  (reply.op = "list" /\ AfterCompletedRecords)
    => SumCounts(reply.body.exceptions) = TotalSent

\* C11: every success response of Record has isDuplicate = (occurrenceCount > 1)
\* and occurrenceCount >= 1, whatever the interleaving of the calls.
C11_RecordResponseShape ==
  \A h \in DOMAIN sent : \A i \in 1..Len(sent[h]) :
    /\ sent[h][i].body.status = 200
    /\ sent[h][i].body.isDuplicate = (sent[h][i].body.duplicateCount > 1)
    /\ sent[h][i].body.duplicateCount >= 1

\* A first occurrence and a duplicate have been answered, the duplicate last
\* and while another Record call was running.
C11_Witness ==
  /\ reply.op = "record" /\ reply.body.status = 200
  /\ reply.body.isDuplicate /\ reply.body.duplicateCount = 2
  /\ \E h \in DOMAIN sent : ~sent[h][1].body.isDuplicate /\ sent[h][1].body.duplicateCount = 1
  /\ ~NoRecordInFlight

\* No Record call for hash h has been answered with success and none is
\* running.
NeverRecorded(h) ==
  /\ SentFor(h) = <<>>
  /\ \A s \in Slots : ~(calls[s].op = "record" /\ hashMessage(calls[s].message) = h)

\* C12: a Search whose fingerprint was never recorded is answered with
\* success: matchCount 0, isDuplicate false, occurrenceCount 0, no matches.
C12_UnknownQueryIsEmpty ==
  (reply.op = "search" /\ reply.body.status # 400)
    => /\ reply.body.status = 200
       /\ NeverRecorded(hashMessage(reply.body.query))
            => /\ reply.body.matchCount = 0
               /\ ~reply.body.isDuplicate
               /\ reply.body.duplicateCount = 0
               /\ reply.body.matches = <<>>

\* Search("Y ") in a store that holds other fingerprints only.
C12_Witness ==
  /\ reply.op = "search" /\ reply.body.status = 200
  /\ reply.body.query = <<"Y", " ">>
  /\ NeverRecorded(hashMessage(reply.body.query))
  /\ DOMAIN sent # {}
  /\ reply.body.matchCount = 0

\* `body.duplicateCount > 0`, false of a response without the field.
HasOccurrences(body) == "duplicateCount" \in DOMAIN body /\ body.duplicateCount > 0

\* C13: in every success response of Search, matchCount is 0 or 1, the
\* matches are matchCount many, and isDuplicate holds exactly when
\* matchCount = 1 and occurrenceCount > 0.
C13_SearchShape ==
  (reply.op = "search" /\ reply.body.status = 200)
    => /\ reply.body.matchCount \in {0, 1}
       /\ Len(reply.body.matches) = reply.body.matchCount
       /\ reply.body.isDuplicate <=> (reply.body.matchCount = 1 /\ HasOccurrences(reply.body))

\* C14: a Record with an empty message or an empty zipFile and a Search
\* with an empty query are rejected with status 400 (InvalidRequest), and the
\* rejected call changes no counter, no record and not the index; nor does
\* any other step that answers 400.
C14_RejectedWithoutStorage ==
  [][/\ reply'.body.status = 400 => UNCHANGED <<redisStrings, redisHashes, redisZset>>
     /\ \A s \in Slots :
          /\ \A message \in Messages, zipFile \in ZipFiles :
                ((message = <<>> \/ zipFile = "") /\ RecordStart(s, message, zipFile))
                  => /\ reply'.op = "record" /\ reply'.body.status = 400
                     /\ UNCHANGED <<redisStrings, redisHashes, redisZset, calls, sent>>
          /\ \A query \in Queries :
                (query = <<>> /\ SearchStart(s, query))
                  => /\ reply'.op = "search" /\ reply'.body.status = 400
                     /\ UNCHANGED <<redisStrings, redisHashes, redisZset, calls, sent>>
    ]_vars

\* A Record is rejected while the store holds a record and another Record
\* call is running.
C14_Witness ==
  /\ reply.op = "record" /\ reply.body.status = 400
  /\ DOMAIN redisHashes # {}
  /\ ~NoRecordInFlight

\* A storage command of the Record or Search request in slot s is rejected.
StorageFails(s) ==
  \/ \E message \in Messages, zipFile \in ZipFiles : RecordGetFail(s, message, zipFile)
  \/ RecordFail(s)
  \/ \E query \in Queries : SearchHGetAllFail(s, query)
  \/ SearchGetFail(s)

\* C15: a Record or Search in which a storage command fails is answered
\* with an error (status 500) that carries no isDuplicate and no count; it is
\* never answered with success, and never logged as an occurrence.
C15_FailureIsAnError ==
  [][\A s \in Slots :
       StorageFails(s)
         => /\ reply'.op \in {"record", "search"}
            /\ reply'.body.status = 500
            /\ DOMAIN reply'.body \cap
                 {"success", "isDuplicate", "duplicateCount", "matchCount", "matches"} = {}
            /\ sent' = sent]_vars

\* A Search fails at the GET of the count of a fingerprint that has two
\* occurrences.
C15_Witness ==
  /\ reply.op = "search" /\ reply.body.status = 500
  /\ \E h \in DOMAIN sent : Len(sent[h]) = 2 /\ CountOf(h) = 2

\* The fingerprints the store knows in any of its three places.
Stored ==
  DOMAIN redisStrings \cup DOMAIN redisHashes \cup {e.value : e \in redisZset}

\* C16: Record is all-or-nothing: when no Record call is running, every
\* fingerprint the store knows has its counter, its record and its index
\* entry, and the count in the record is the counter; no call has left
\* behind only some of its three writes.
C16_AllOrNothing ==
  NoRecordInFlight
    => \A h \in Stored :
         /\ h \in DOMAIN redisHashes
         /\ CountOf(h) >= 1
         /\ parseInt(redisHashes[h].count) = CountOf(h)
         /\ \E e \in redisZset : e.value = h

\* C17: with the Record calls one after another, when a Record call
\* completes the stored record of its fingerprint holds the message as it
\* was sent (not normalized) and the zipFile of that call, and its count
\* field is the occurrenceCount the call returns; a Search for the
\* fingerprint returns the stored record, which is that of the last
\* completed Record call, as its single match.
C17_LatestOccurrenceStored ==
  [][\A s \in Slots :
       /\ RecordZAdd(s)
            => LET h == hashMessage(calls[s].message)
               IN  /\ redisHashes'[h].message = calls[s].message
                   /\ redisHashes'[h].zipFile = calls[s].zipFile
                   /\ parseInt(redisHashes'[h].count) = reply'.body.duplicateCount
       /\ (SearchGet(s) /\ SentFor(hashMessage(calls[s].query)) # <<>>)
            => LET h == hashMessage(calls[s].query)
                   last == sent[h][Len(sent[h])]
               IN  /\ reply'.body.matchCount = 1
                   /\ reply'.body.matches = <<redisHashes[h]>>
                   /\ redisHashes[h].message = last.message
                   /\ parseInt(redisHashes[h].count) = last.body.duplicateCount
    ]_vars

\* Search("x") after Record("X", a.zip) and Record(" x ", b.zip) returns the
\* record of the second call.
C17_Witness ==
  /\ reply.op = "search" /\ reply.body.status = 200
  /\ reply.body.query = <<"x">>
  /\ reply.body.matchCount = 1
  /\ reply.body.matches[1].message = <<" ", "x", " ">>
  /\ reply.body.matches[1].zipFile = "b.zip"
  /\ reply.body.matches[1].count = <<"2">>
  /\ \E h \in DOMAIN sent : Len(sent[h]) = 2 /\ sent[h][1].message = <<"X">>

\* Search finds fingerprint h: its count is positive (line 135).
Found(h) == CountOf(h) > 0

\* ListAll lists fingerprint h: it is a member of the index (line 165).
Listed(h) == \E e \in redisZset : e.value = h

\* C18: the store only grows.  A Search answers matchCount 1 exactly for a
\* fingerprint that is found and a ListAll visits exactly the fingerprints
\* that are listed when it starts; and no step of any Record, Search or
\* ListAll makes a found fingerprint not found, removes a record or takes a
\* listed fingerprint out of the index.
C18_StoreOnlyGrows ==
  [][/\ \A h \in Stored :
          /\ Found(h) => Found(h)'
          /\ Listed(h) => Listed(h)'
          /\ h \in DOMAIN redisHashes => h \in DOMAIN redisHashes'
     /\ (reply'.op = "search" /\ reply'.body.status = 200)
          => (reply'.body.matchCount = 1 <=> Found(hashMessage(reply'.body.query)))
     /\ \A s \in Slots :
          ListStart(s) /\ calls'[s].op = "list"
            => {calls'[s].allExceptions[i] : i \in 1..Len(calls'[s].allExceptions)}
                 = {h \in Stored : Listed(h)}
    ]_vars

\* A Search of a fingerprint that had one completed Record when the Search
\* arrived is answered, found, after two more Record calls have completed.
C18_Witness ==
  /\ reply.op = "search" /\ reply.body.status = 200
  /\ reply.sentBefore = 1
  /\ TotalSent = 3
  /\ reply.body.matchCount = 1

\* The request in slot s takes a step of a Search or of a ListAll.
ReadStep(s) ==
  \/ \E query \in Queries : SearchStart(s, query)
  \/ SearchGet(s)
  \/ ListStart(s)
  \/ ListHGetAll(s)
  \/ ListGet(s)

\* C19: Search and ListAll are pure reads: no step of theirs changes a
\* counter, a record or the index, nor the clock, nor what a Record call in
\* flight has read and will write and answer, nor the responses Record has
\* sent; so wherever such a step falls among those of Record calls, the
\* results of the Record calls and the final store are the same.
C19_ReadsArePure ==
  [][\A s \in Slots :
       ReadStep(s)
         => /\ UNCHANGED <<redisStrings, redisHashes, redisZset, now, posts, sent>>
            /\ \A t \in Slots \ {s} : calls'[t] = calls[t]
            /\ reply'.op # "record"]_vars

\* A Search is answered between the SET and the ZADD of a Record call for
\* its fingerprint.
C19_Witness ==
  /\ reply.op = "search" /\ reply.body.status = 200
  /\ \E s \in Slots :
       /\ calls[s].op = "record" /\ calls[s].pc = "zAdd"
       /\ hashMessage(calls[s].message) = hashMessage(reply.body.query)

\* The duplicate_exception notifications sent for hash h with count n.
DuplicateNotifications(h, n) ==
  { i \in 1..Len(notifications) :
      /\ notifications[i].type = "duplicate_exception"
      /\ hashMessage(notifications[i].message) = h
      /\ notifications[i].details.duplicateCount = n }

\* The Record responses for hash h with isDuplicate = true and count n.
DuplicateResponses(h, n) ==
  { i \in 1..Len(SentFor(h)) :
      sent[h][i].body.isDuplicate /\ sent[h][i].body.duplicateCount = n }

C25_RecordCountIsCounter ==
  NoRecordInFlight
    => \A h \in DOMAIN redisHashes : parseInt(redisHashes[h].count) = CountOf(h)

\* C26: in every state, also in the middle of Record calls, every
\* fingerprint in the index has a counter >= 1 and a record with its
\* fields; and every entry a ListAll returns has count >= 1 and data that is
\* not empty.
C26_IndexedIsComplete ==
  /\ \A e \in redisZset :
        /\ CountOf(e.value) >= 1
        /\ e.value \in DOMAIN redisHashes
        /\ DOMAIN redisHashes[e.value] = {"message", "zipFile", "timestamp", "count"}
  /\ (reply.op = "list" /\ reply.body.status = 200)
       => \A i \in 1..Len(reply.body.exceptions) :
            /\ reply.body.exceptions[i].count >= 1
            /\ reply.body.exceptions[i].data # NoFields

\* A ListAll returns an entry while a Record call for another fingerprint
\* has written its record and not yet its counter.
C26_Witness ==
  /\ reply.op = "list" /\ reply.body.status = 200
  /\ Len(reply.body.exceptions) = 1
  /\ \E s \in Slots :
       /\ calls[s].op = "record" /\ calls[s].pc = "set"
       /\ hashMessage(calls[s].message) # reply.body.exceptions[1].hash

\* The request in slot s takes a step of a Record call that writes.
RecordWrites(s) == RecordHSet(s) \/ RecordSet(s) \/ RecordZAdd(s)

\* C27: a step of a Record call for fingerprint A leaves the counter and the
\* record of every other fingerprint B as they were (present or absent), so
\* what a Record or Search for B reads does not depend on the calls for A.
C27_OtherFingerprintsUntouched ==
  [][\A s \in Slots :
       RecordWrites(s)
         => \A b \in (Stored \cup Stored') \ {hashMessage(calls[s].message)} :
              /\ CountOf(b)' = CountOf(b)
              /\ hGetAll(b)' = hGetAll(b)
              /\ (b \in DOMAIN redisStrings') = (b \in DOMAIN redisStrings)
              /\ (b \in DOMAIN redisHashes') = (b \in DOMAIN redisHashes)]_vars

\* A Record call for one fingerprint completes while the store holds
\* another and a Record call for that other one is running.
C27_Witness ==
  /\ reply.op = "record" /\ reply.body.status = 200
  /\ Cardinality(DOMAIN redisHashes) = 2
  /\ \E s \in Slots : \E h \in DOMAIN sent :
       /\ reply.body = sent[h][Len(sent[h])].body
       /\ calls[s].op = "record" /\ hashMessage(calls[s].message) # h
       /\ hashMessage(calls[s].message) \in DOMAIN redisStrings

\* What GET /exceptions of the in-memory revision answers for the entry of
\* the normalized message: records.length.
MemCountOf(normalized) == Len(RecordsOf(normalized))

\* C28: for every sequence of Record calls made one after another, the
\* Redis-backed registry and the in-memory revision answer each call with
\* the same isDuplicate and duplicateCount, and GET /exceptions gives the
\* same totalUniqueExceptions and the same count for every exception.
C28_VariantsAgree ==
  /\ [][\A s \in Slots :
          (calls[s].op = "record" /\ calls[s].pc = "zAdd" /\ calls'[s] = IdleCall)
            => LET mem == MemRecordResult(calls[s].message, calls[s].zipFile).body
               IN  /\ mem.status = reply'.body.status
                   /\ mem.isDuplicate = reply'.body.isDuplicate
                   /\ mem.duplicateCount = reply'.body.duplicateCount]_vars
  /\ []((reply.op = "list" /\ reply.body.status = 200)
          => /\ reply.body.totalUniqueExceptions = Len(exceptionDatabase)
             /\ \A i \in 1..Len(reply.body.exceptions) :
                  reply.body.exceptions[i].count =
                    MemCountOf(normalizeMessage(reply.body.exceptions[i].data.message)))

\* The position of processExtractedFiles in its code.
PcRank(pc) ==
  CASE pc = "idle" -> 0
    [] pc = "workflow1" -> 1
    [] pc = "message" -> 2
    [] pc = "workflow2" -> 3
    [] pc = "store" -> 4
    [] pc = "notify" -> 5

MessagesIn(sink) == Cardinality({i \in 1..Len(sink) : sink[i].type = "message"})

NamesMessage(name) ==
  \/ Includes(name, <<"m", "e", "s", "s", "a", "g", "e">>)
  \/ Includes(name, <<"s", "u", "p", "p", "o", "r", "t">>)

NamesException(name) ==
  \/ Includes(name, <<"e", "x", "c", "e", "p", "t", "i", "o", "n">>)
  \/ Includes(name, <<"e", "r", "r", "o", "r">>)
  \/ Includes(name, <<"l", "o", "g">>)

\* The first member whose lower-cased name says message (exception), 0 if
\* none does.
FirstMessageMember(files) ==
  IF \E i \in 1..Len(files) : NamesMessage(toLowerCase(files[i].name))
    THEN CHOOSE i \in 1..Len(files) :
           /\ NamesMessage(toLowerCase(files[i].name))
           /\ \A j \in 1..(i - 1) : ~NamesMessage(toLowerCase(files[j].name))
    ELSE 0

FirstExceptionMember(files) ==
  IF \E i \in 1..Len(files) : NamesException(toLowerCase(files[i].name))
    THEN CHOOSE i \in 1..Len(files) :
           /\ NamesException(toLowerCase(files[i].name))
           /\ \A j \in 1..(i - 1) : ~NamesException(toLowerCase(files[j].name))
    ELSE 0

\* C21: processing an archive goes through its code once, from workflow 1
\* to workflow 2 and never back; a 'message' notification is sent only in
\* workflow 1, one, for the first member whose name says message, and a
\* Record call is made only in workflow 2, one, for the first member whose
\* name says exception.  So there are never more 'message' notifications or
\* Record calls than archives.
C21_OneOfEach ==
  /\ [](MessagesIn(notifications) <= archives /\ posts <= archives)
  /\ [][\A u \in Slots :
          uploads'[u] # uploads[u]
            => /\ \/ uploads'[u].pc = "idle"
                  \/ PcRank(uploads'[u].pc) > PcRank(uploads[u].pc)
               /\ MessagesIn(notifications') # MessagesIn(notifications)
                    => LET file == FirstMessageMember(uploads[u].files)
                       IN  /\ uploads[u].pc = "workflow1"
                           /\ MessagesIn(notifications') = MessagesIn(notifications) + 1
                           /\ file # 0
                           /\ notifications'[Len(notifications')].details.file =
                                 uploads[u].files[file].name
                           /\ notifications'[Len(notifications')].message =
                                 trim(uploads[u].files[file].content)
               /\ posts' # posts
                    => LET file == FirstExceptionMember(uploads[u].files)
                       IN  /\ uploads[u].pc = "workflow2"
                           /\ posts' = posts + 1
                           /\ file # 0
                           /\ calls'[u].message = trim(uploads[u].files[file].content)]_vars

\* An archive with two message files and two exception files has had its
\* message notified and its exception sent to the registry.
C21_Witness ==
  \E u \in Slots :
    /\ uploads[u].pc = "store"
    /\ Cardinality({i \in 1..Len(uploads[u].files) :
                      NamesMessage(toLowerCase(uploads[u].files[i].name))}) = 2
    /\ Cardinality({i \in 1..Len(uploads[u].files) :
                      NamesException(toLowerCase(uploads[u].files[i].name))}) = 2
    /\ archives = 1 /\ MessagesIn(notifications) = 1 /\ posts = 1

\* C24: when K archives with the same exception text have been processed,
\* in any interleaving, and nothing is in flight, there is exactly one
\* duplicate_exception notification for each occurrence number 2..K of that
\* text and none for any other number: K - 1 in all.
C24_DuplicatesNumbered ==
  ((\A u \in Slots : uploads[u].pc = "idle") /\ NoRecordInFlight)
    => \A h \in DOMAIN sent :
         (\A i, j \in 1..Len(sent[h]) : sent[h][i].message = sent[h][j].message)
           => \A n \in 1..MaxRecords :
                Cardinality(DuplicateNotifications(h, n)) =
                  IF 2 <= n /\ n <= Len(sent[h]) THEN 1 ELSE 0

\* C22: every POST /notify that is answered with success adds a file of its
\* own to the directory, with status 'unread' and the data of the request,
\* and leaves the files of earlier notifications as they are; GET
\* /notifications returns one record per file.  So after n successful
\* calls, whatever their timing and types, n records are listed.
C22_EveryNotifyKept ==
  /\ [][(reply'.op = "notify" /\ reply'.body.status = 200)
          => LET file == reply'.body.file
             IN  /\ file \in DOMAIN notificationsDir'
                 /\ Cardinality(DOMAIN notificationsDir') =
                       Cardinality(DOMAIN notificationsDir) + 1
                 /\ notificationsDir'[file].status = "unread"
                 /\ \A f \in DOMAIN notificationsDir :
                       notificationsDir'[f] = notificationsDir[f]]_vars
  /\ []((reply.op = "notifications" /\ reply.body.status = 200)
          => /\ reply.body.count = Cardinality(DOMAIN notificationsDir)
             /\ Len(reply.body.notifications) = reply.body.count)

\* C23: when a call the orchestrator made for an upload, to the registry or
\* to the notify service, has failed, the upload is not answered with
\* success.
C23_FailurePropagated ==
  \A u \in Slots : (failed[u] /\ res[u] # NoResponse) => res[u].status # 200

\* The text of the first member of the archive whose name says message
\* (exception), as the orchestrator reads it.
OwnMessage(zip) == trim(zip[FirstMessageMember(zip)].content)

OwnException(zip) == trim(zip[FirstExceptionMember(zip)].content)

\* C29: whatever the interleaving of the saving, extracting and processing
\* of concurrent uploads, also of archives with the same file name, the
\* 'message' notification, the Record call and the duplicate_exception
\* notification made for an upload carry the text of the message file and
\* of the exception file of the archive that was uploaded.
C29_OwnContent ==
  [][\A u \in Slots :
       /\ (uploads[u].pc = "workflow1" /\ uploads'[u].pc = "message")
            => /\ FirstMessageMember(uploads[u].zip) # 0
               /\ notifications'[Len(notifications')].message = OwnMessage(uploads[u].zip)
       /\ (uploads[u].pc = "workflow2" /\ uploads'[u].pc = "store")
            => /\ FirstExceptionMember(uploads[u].zip) # 0
               /\ calls'[u].message = OwnException(uploads[u].zip)
       /\ (uploads[u].pc = "store" /\ uploads'[u].pc = "notify")
            => notifications'[Len(notifications')].message = OwnException(uploads[u].zip)
    ]_vars

====
